---------------------------- MODULE Spec2Model ----------------------------
(***************************************************************************)
(* Model of src/terraform_api_client.py: the rate-limited request executor *)
(* (_make_request), the pager (_paginated_request) and the collection      *)
(* orchestrator (get_all_data) of the Terraform Cloud API client.          *)
(*                                                                         *)
(* The program runs one asyncio task: get_all_data creates coroutine       *)
(* objects and awaits them one after the other, so there is one thread of  *)
(* control and one stack of _make_request frames at any time.              *)
(***************************************************************************)
EXTENDS Integers, Sequences, FiniteSets, TLC

(***************************************************************************)
(* Bounds of the model.                                                    *)
(***************************************************************************)
\* largest max_concurrent_requests tried in a collection run
MaxCap == 2
\* longest page chain the remote serves for one collection
MaxPages == 2
\* most items on one page of a single-pager run
MaxItems == 1
\* most rate-limit (429) responses the remote sends to one pager call
MaxRateLimits == 2
\* most rate-limit (429) responses the remote sends in one collection run
MaxRunRateLimits == 1
\* most organizations the remote lists
MaxOrgs == 2
\* most workspaces the remote holds, over all organizations
MaxWs == 2
\* most runs the remote holds, over all workspaces
MaxRuns == 1

(***************************************************************************)
(* Program constants.                                                      *)
(***************************************************************************)
StatusOK == 200
StatusRateLimit == 429
DefaultRetryAfter == 5
\* aiohttp's ClientResponse.raise_for_status raises only when status >= 400
ErrorThreshold == 400

VARIABLES
    cap,            \* config.max_concurrent_requests
    sem,            \* self.semaphore: permits available
    world,          \* the remote API: the page chain of every collection seen
    rlLeft,         \* rate-limit responses the remote may still send
    stack,          \* frames of _make_request, innermost last
    mr,             \* outcome of the outermost _make_request, for its caller
    gets,           \* HTTP GETs issued by the current outermost _make_request
    sleeps,         \* arguments of asyncio.sleep in the current outermost call
    answers,        \* responses received by the current outermost call
    pg,             \* _paginated_request: pc, current_url, params, all_data
    calls,          \* calls of _make_request by the current pager call
    reqlog,         \* the (url, params) of every GET of the current pager call
    stage,          \* position of get_all_data
    organizations,  \* get_all_data: organizations
    tasks,          \* get_all_data: workspace_tasks / run_tasks still to await
    org_workspaces, \* get_all_data: org_workspaces (insertion-ordered dict)
    workspace_runs, \* get_all_data: workspace_runs (insertion-ordered dict)
    fetched,        \* pager calls completed in the current stage, with results
    result          \* the snapshot returned by get_all_data

execVars == <<sem, rlLeft, stack, mr, gets, sleeps, answers>>
pagerVars == <<pg, calls, reqlog>>
orchVars == <<stage, organizations, tasks, org_workspaces, workspace_runs,
              fetched, result>>
vars == <<cap, world, execVars, pagerVars, orchVars>>

(***************************************************************************)
(* Values.                                                                 *)
(***************************************************************************)
OrgNames == {"a", "b"}
WsIds == {"ws-1", "ws-2"}

\* Python None for a query-parameter dict, and the two dicts the code passes
NoParams == "None"
WsParams == "include=current-run,organization"
RunParams == "include=plan,apply,configuration-version"

\* a URL: the collection, the path key and the page the locator points at
URL(coll, key, page) == [coll |-> coll, key |-> key, page |-> page]
NoURL == URL("None", "", 0)
OrgsURL == URL("organizations", "", 1)
WorkspacesURL(org_name) == URL("workspaces", org_name, 1)
RunsURL(workspace_id) == URL("runs", workspace_id, 1)

\* a Resource Item: only the fields the code reads
Item(id, name) == [id |-> id, name |-> name]
OrgItems == {Item(n, n) : n \in OrgNames}
WsItems == {Item("ws-1", "x"), Item("ws-2", "x"), Item("ws-2", "y")}
RunItems == {Item("run-1", "")}

\* the shapes of the 'links' member of a decoded page
LinkKinds == {"NoLinks", "NoNext", "EmptyNext", "Next"}

\* a decoded page: whether it has a 'data' member, its items, its links
Page(hasData, data, links) == [hasData |-> hasData, data |-> data, links |-> links]
NoPage == Page(FALSE, <<>>, "NoLinks")

SeqsUpTo(S, n) == UNION {[1..k -> S] : k \in 0..n}

PagesOver(S, n) ==
    {Page(TRUE, d, l) : d \in SeqsUpTo(S, n), l \in LinkKinds}
        \cup {Page(FALSE, <<>>, l) : l \in LinkKinds}

\* a finite chain: every page but the last links to the next one
IsChain(c) ==
    /\ Len(c) >= 1
    /\ \A i \in 1..Len(c) : (c[i].links = "Next") <=> (i < Len(c))

ChainsOver(S, n) ==
    {c \in UNION {[1..k -> PagesOver(S, n)] : k \in 1..MaxPages} : IsChain(c)}

\* a collection served on one well-formed page
OnePage(items) == <<Page(TRUE, items, "NoNext")>>

\* the items of a chain, in page order then within-page order
RECURSIVE ItemsOf(_)
ItemsOf(c) == IF c = <<>> THEN <<>> ELSE c[1].data \o ItemsOf(Tail(c))

\* the number of items of the chains f[k], k in S
RECURSIVE Holds(_, _)
Holds(f, S) ==
    IF S = {} THEN 0
    ELSE LET k == CHOOSE x \in S : TRUE
         IN Len(ItemsOf(f[k])) + Holds(f, S \ {k})

\* The remote's content is fixed for a run, and the model fixes the chain of
\* a collection when the remote first serves a page of it; the empty chain
\* stands for a collection not served so far.
Unseen == <<>>
UnseenWorld ==
    [orgs |-> Unseen, ws |-> [n \in OrgNames |-> Unseen],
     runs |-> [i \in WsIds |-> Unseen]]

ChainOf(w, url) ==
    IF url.coll = "organizations" THEN w.orgs
    ELSE IF url.coll = "workspaces" THEN w.ws[url.key]
    ELSE w.runs[url.key]

WithChain(w, url, c) ==
    IF url.coll = "organizations" THEN [w EXCEPT !.orgs = c]
    ELSE IF url.coll = "workspaces" THEN [w EXCEPT !.ws[url.key] = c]
    ELSE [w EXCEPT !.runs[url.key] = c]

\* the chains the remote may hold behind url in a single-pager run
PagerItems == {Item("ws-1", "x"), Item("ws-2", "y")}
PagerChains(w, url) == ChainsOver(PagerItems, MaxItems)

\* the chains the remote may hold behind url in a collection run: every
\* collection on one page, within the bounds on what the remote holds
RunChains(w, url) ==
    IF url.coll = "organizations"
    THEN {OnePage(l) : l \in SeqsUpTo(OrgItems, MaxOrgs)}
    ELSE IF url.coll = "workspaces"
    THEN {OnePage(l) : l \in SeqsUpTo(WsItems, MaxWs - Holds(w.ws, OrgNames))}
    ELSE {OnePage(l) : l \in SeqsUpTo(RunItems, MaxRuns - Holds(w.runs, WsIds))}

\* the remote once it has served url, chains being what it may hold there
Served(w, url, chains) ==
    IF ChainOf(w, url) # Unseen THEN {w}
    ELSE {WithChain(w, url, c) : c \in chains}

\* the page the remote serves at a URL
Remote(w, url) == ChainOf(w, url)[url.page]

\* the next-page locator carried by the page served at url
NextLocator(url) == [url EXCEPT !.page = @ + 1]


(***************************************************************************)
(* Responses of the remote to one GET.                                     *)
(***************************************************************************)
\* a Retry-After header value is a string: a sequence of characters
Digits == <<"0", "1", "2", "3", "4", "5", "6", "7", "8", "9">>
IsDigit(c) == \E i \in 1..Len(Digits) : Digits[i] = c
DigitVal(c) == (CHOOSE i \in 1..Len(Digits) : Digits[i] = c) - 1

RECURSIVE DecimalValue(_)
DecimalValue(s) ==
    IF s = <<>> THEN 0
    ELSE 10 * DecimalValue(SubSeq(s, 1, Len(s) - 1)) + DigitVal(s[Len(s)])

AllDigits(s) == s # <<>> /\ \A i \in 1..Len(s) : IsDigit(s[i])

\* Python's int(str): an optional sign and decimal digits, else ValueError
ParseInt(s) ==
    IF AllDigits(s) THEN [ok |-> TRUE, val |-> DecimalValue(s)]
    ELSE IF s # <<>> /\ s[1] \in {"+", "-"} /\ AllDigits(Tail(s))
    THEN [ok |-> TRUE,
          val |-> IF s[1] = "-" THEN 0 - DecimalValue(Tail(s))
                  ELSE DecimalValue(Tail(s))]
    ELSE [ok |-> FALSE, val |-> 0]

\* Retry-After values the remote sends: seconds, or an HTTP date
HeaderValues == {<<"1", "2">>, <<"W", "e", "d">>}

Resp(fault, status, hasRA, ra, decodable) ==
    [fault |-> fault, status |-> status, hasRA |-> hasRA, ra |-> ra,
     decodable |-> decodable]

OtherStatuses == {204, 500}

Responses ==
    {Resp(TRUE, 0, FALSE, <<>>, FALSE)}
        \cup {Resp(FALSE, StatusOK, FALSE, <<>>, d) : d \in BOOLEAN}
        \cup {Resp(FALSE, StatusRateLimit, FALSE, <<>>, FALSE)}
        \cup {Resp(FALSE, StatusRateLimit, TRUE, h, FALSE) : h \in HeaderValues}
        \cup {Resp(FALSE, s, FALSE, <<>>, FALSE) : s \in OtherStatuses}

IsRateLimit(r) == ~r.fault /\ r.status = StatusRateLimit

(***************************************************************************)
(* _make_request (lines 51-69).                                            *)
(***************************************************************************)
Frame(url, params, pc, holds) ==
    [url |-> url, params |-> params, pc |-> pc, holds |-> holds]

Top == stack[Len(stack)]
SetTop(f) == [stack EXCEPT ![Len(stack)] = f]

\* a count that sees the innermost frame's permit only
CountHeldInnermost(st) == IF st = <<>> THEN 0 ELSE 1

\* permits held by the frames of a stack (each inside 'async with', line 53)
RECURSIVE CountHeld(_)
CountHeld(st) ==
    IF st = <<>> THEN 0
    ELSE (IF st[Len(st)].holds THEN 1 ELSE 0)
             + CountHeld(SubSeq(st, 1, Len(st) - 1))

\* permits acquired by _make_request frames and not yet released
Outstanding == CountHeld(stack)

\* a semaphore that never makes its caller wait
CanAcquireAlways(s) == TRUE

\* asyncio.Semaphore.acquire proceeds only while the value is positive
CanAcquire(s) == s > 0

\* a retry delay that ignores the header
RetryAfterDefaultOnly(r) == [ok |-> TRUE, val |-> DefaultRetryAfter]

\* int(response.headers.get('Retry-After', 5))
RetryAfter(r) ==
    IF r.hasRA THEN ParseInt(r.ra) ELSE [ok |-> TRUE, val |-> DefaultRetryAfter]

\* response.raise_for_status() raises for the error statuses only
RaisesForStatus(status) == status >= ErrorThreshold

Outcome(kind, err, delay) == [kind |-> kind, err |-> err, delay |-> delay]

\* a frame that backs off and retries when the body cannot be decoded
HandleResponseRetriesGarbled(r) ==
    IF r.fault THEN Outcome("error", "ClientError", 0)
    ELSE IF r.status = StatusOK
    THEN IF r.decodable THEN Outcome("page", "", 0)
         ELSE Outcome("sleep", "", DefaultRetryAfter)
    ELSE IF r.status = StatusRateLimit
    THEN IF RetryAfter(r).ok THEN Outcome("sleep", "", RetryAfter(r).val)
         ELSE Outcome("error", "ValueError", 0)
    ELSE IF RaisesForStatus(r.status) THEN Outcome("error", "ClientResponseError", 0)
    ELSE Outcome("null", "", 0)

\* what one frame does with the response to its GET
HandleResponse(r) ==
    IF r.fault THEN Outcome("error", "ClientError", 0)
    ELSE IF r.status = StatusOK
    THEN IF r.decodable THEN Outcome("page", "", 0)
         ELSE Outcome("error", "JSONDecodeError", 0)
    ELSE IF r.status = StatusRateLimit
    THEN IF RetryAfter(r).ok THEN Outcome("sleep", "", RetryAfter(r).val)
         ELSE Outcome("error", "ValueError", 0)
    ELSE IF RaisesForStatus(r.status) THEN Outcome("error", "ClientResponseError", 0)
    ELSE Outcome("null", "", 0)

\* the frame pushed by 'return await self._make_request(url, params)'
RetryFrame(f) == Frame(f.url, f.params, "acquire", FALSE)

Result(kind, err, page) == [kind |-> kind, err |-> err, page |-> page]
NoResult == Result("none", "", NoPage)

\* async with self.semaphore: entry
Acquire ==
    /\ stack # <<>>
    /\ Top.pc = "acquire"
    /\ CanAcquire(sem)
    /\ sem' = sem - 1
    /\ stack' = SetTop([Top EXCEPT !.pc = "get", !.holds = TRUE])
    /\ UNCHANGED <<cap, world, rlLeft, mr, gets, sleeps, answers, pagerVars, orchVars>>

\* self.session.get(url, params=params): the request goes out
Send ==
    /\ stack # <<>>
    /\ Top.pc = "get"
    /\ stack' = SetTop([Top EXCEPT !.pc = "inflight"])
    /\ gets' = gets + 1
    /\ reqlog' = Append(reqlog, [url |-> Top.url, params |-> Top.params])
    /\ UNCHANGED <<cap, world, sem, rlLeft, mr, sleeps, answers, pg, calls, orchVars>>

\* the response arrives: the frame sleeps, or the call returns or raises and
\* every frame of the call leaves its 'async with self.semaphore' block
Receive(chains) ==
    /\ stack # <<>>
    /\ Top.pc = "inflight"
    /\ \E r \in Responses :
        /\ IsRateLimit(r) => rlLeft > 0
        /\ rlLeft' = IF IsRateLimit(r) THEN rlLeft - 1 ELSE rlLeft
        /\ answers' = Append(answers, r)
        /\ LET o == HandleResponse(r) IN
            IF o.kind = "sleep"
            THEN /\ stack' = SetTop([Top EXCEPT !.pc = "sleep"])
                 /\ sleeps' = Append(sleeps, o.delay)
                 /\ UNCHANGED <<world, sem, mr>>
            ELSE /\ stack' = <<>>
                 /\ sem' = sem + Outstanding
                 /\ IF o.kind = "page"
                    THEN /\ world' \in Served(world, Top.url, chains)
                         /\ mr' = Result(o.kind, o.err, Remote(world', Top.url))
                    ELSE /\ mr' = Result(o.kind, o.err, NoPage)
                         /\ UNCHANGED world
                 /\ UNCHANGED sleeps
    /\ UNCHANGED <<cap, gets, pagerVars, orchVars>>

\* asyncio.sleep(retry_after) ends: the frame calls _make_request again
Wake ==
    /\ stack # <<>>
    /\ Top.pc = "sleep"
    /\ stack' = Append(SetTop([Top EXCEPT !.pc = "await"]), RetryFrame(Top))
    /\ UNCHANGED <<cap, world, sem, rlLeft, mr, gets, sleeps, answers, pagerVars,
                   orchVars>>

ExecNext(chains) == Acquire \/ Send \/ Receive(chains) \/ Wake

(***************************************************************************)
(* _paginated_request (lines 71-89).                                       *)
(***************************************************************************)
Pager(pc, url, params, all_data) ==
    [pc |-> pc, url |-> url, params |-> params, all_data |-> all_data]
IdlePager == Pager("idle", NoURL, NoParams, <<>>)

\* the state on entry: all_data = [], current_url = url
StartPager(url, params) == Pager("loop", url, params, <<>>)

\* an accumulation that skips the items it already holds
RECURSIVE ExtendUnique(_, _)
ExtendUnique(all_data, page) ==
    IF page.data = <<>> THEN all_data
    ELSE ExtendUnique(
             IF \E i \in 1..Len(all_data) : all_data[i] = page.data[1]
             THEN all_data ELSE Append(all_data, page.data[1]),
             [page EXCEPT !.data = Tail(page.data)])

\* if 'data' in response: all_data.extend(response['data'])
Extend(all_data, page) ==
    IF page.hasData THEN all_data \o page.data ELSE all_data

\* a loop that also stops at the first page without items
HasNextAndItems(page) == page.links = "Next" /\ page.data # <<>>

\* 'links' in response and 'next' in response['links'] and response['links']['next']
HasNext(page) == page.links = "Next"

\* a pager that sends its query parameters with every page
ParamsKept(params, page) == params

\* params after a page: cleared when there is a next page, else left alone
ParamsAfter(params, page) == IF HasNext(page) THEN NoParams ELSE params

\* while current_url: response = await self._make_request(current_url, params)
PagerCall ==
    /\ pg.pc = "loop"
    /\ pg.url # NoURL
    /\ pg' = [pg EXCEPT !.pc = "await"]
    /\ stack' = <<Frame(pg.url, pg.params, "acquire", FALSE)>>
    /\ calls' = calls + 1
    /\ mr' = NoResult
    /\ gets' = 0
    /\ sleeps' = <<>>
    /\ answers' = <<>>
    /\ UNCHANGED <<cap, world, sem, rlLeft, reqlog, orchVars>>

\* _make_request has returned or raised: the rest of the loop body
PagerResume ==
    /\ pg.pc = "await"
    /\ mr.kind # "none"
    /\ stack = <<>>
    /\ pg' = IF mr.kind = "page"
             THEN Pager("loop",
                        IF HasNext(mr.page) THEN NextLocator(pg.url) ELSE NoURL,
                        ParamsAfter(pg.params, mr.page),
                        Extend(pg.all_data, mr.page))
             ELSE [pg EXCEPT !.pc = "raised"]
    /\ UNCHANGED <<cap, world, execVars, calls, reqlog, orchVars>>

\* the loop ends: return all_data
PagerReturn ==
    /\ pg.pc = "loop"
    /\ pg.url = NoURL
    /\ pg' = [pg EXCEPT !.pc = "returned"]
    /\ UNCHANGED <<cap, world, execVars, calls, reqlog, orchVars>>

PagerNext == PagerCall \/ PagerResume \/ PagerReturn

(***************************************************************************)
(* get_all_data (lines 117-175): Python dicts keep insertion order, and    *)
(* assigning to a key that is present replaces its value in place.         *)
(***************************************************************************)
Entry(key, val) == [key |-> key, val |-> val]
DictHas(d, k) == \E i \in 1..Len(d) : d[i].key = k
DictIndex(d, k) == CHOOSE i \in 1..Len(d) : d[i].key = k
DictGet(d, k) == d[DictIndex(d, k)].val
DictSet(d, k, v) ==
    IF DictHas(d, k) THEN [d EXCEPT ![DictIndex(d, k)].val = v]
    ELSE Append(d, Entry(k, v))

\* workspace_tasks: one coroutine per organization, in order (lines 125-129)
WorkspaceTasks(orgs) == [i \in 1..Len(orgs) |-> [org_name |-> orgs[i].name]]

\* a task that files the runs under the workspace's id
RunTaskKeyedById(org_name, workspace) ==
    [org_name |-> org_name, workspace_name |-> workspace.id,
     workspace_id |-> workspace.id]

\* (org_name, workspace_name, workspace_id, task) of run_tasks (lines 143-146)
RunTask(org_name, workspace) ==
    [org_name |-> org_name, workspace_name |-> workspace.name,
     workspace_id |-> workspace.id]

\* run_tasks: one coroutine per workspace of every entry of org_workspaces
\* (lines 141-146)
RECURSIVE RunTasks(_)
RunTasks(d) ==
    IF d = <<>> THEN <<>>
    ELSE [i \in 1..Len(d[1].val) |-> RunTask(d[1].key, d[1].val[i])]
             \o RunTasks(Tail(d))

\* a store that leaves an entry alone once it is there
StoreRunsKeepsFirst(d, task, runs) ==
    LET inner == IF DictHas(d, task.org_name) THEN DictGet(d, task.org_name)
                 ELSE <<>>
    IN IF DictHas(inner, task.workspace_name) THEN d
       ELSE DictSet(d, task.org_name,
                    Append(inner, Entry(task.workspace_name,
                                        [workspace_id |-> task.workspace_id,
                                         runs |-> runs])))

\* workspace_runs[org_name][workspace_name] = {...} (lines 151-156)
StoreRuns(d, task, runs) ==
    LET inner == IF DictHas(d, task.org_name) THEN DictGet(d, task.org_name)
                 ELSE <<>>
    IN DictSet(d, task.org_name,
               DictSet(inner, task.workspace_name,
                       [workspace_id |-> task.workspace_id, runs |-> runs]))

\* sum(len(workspaces) for workspaces in org_workspaces.values())
RECURSIVE TotalWorkspaces(_)
TotalWorkspaces(d) ==
    IF d = <<>> THEN 0 ELSE Len(d[1].val) + TotalWorkspaces(Tail(d))

\* a count of the entries in place of their runs
SumRunsCountsEntries(inner) == Len(inner)

RECURSIVE SumRuns(_)
SumRuns(inner) ==
    IF inner = <<>> THEN 0 ELSE Len(inner[1].val.runs) + SumRuns(Tail(inner))

\* sum(len(workspace_data['runs']) for org_runs in workspace_runs.values()
\*     for workspace_data in org_runs.values())
RECURSIVE TotalRuns(_)
TotalRuns(d) ==
    IF d = <<>> THEN 0 ELSE SumRuns(d[1].val) + TotalRuns(Tail(d))

Snapshot(orgs, workspaces, runs, summary) ==
    [organizations |-> orgs, workspaces |-> workspaces, runs |-> runs,
     summary |-> summary]
Summary(o, w, r) ==
    [total_organizations |-> o, total_workspaces |-> w, total_runs |-> r]
NoSnapshot == Snapshot(<<>>, <<>>, <<>>, Summary(0, 0, 0))

\* result = {...} (lines 159-172)
BuildResult(orgs, workspaces, runs) ==
    Snapshot(orgs, workspaces, runs,
             Summary(Len(orgs), TotalWorkspaces(workspaces), TotalRuns(runs)))

Fetched(kind, task, items) == [kind |-> kind, task |-> task, items |-> items]

\* organizations = await self.get_organizations(): the pager is entered
StartCollection ==
    /\ stage = "NotStarted"
    /\ stage' = "FetchingOrgs"
    /\ pg' = StartPager(OrgsURL, NoParams)
    /\ calls' = 0
    /\ reqlog' = <<>>
    /\ UNCHANGED <<cap, world, execVars, organizations, tasks, org_workspaces,
                   workspace_runs, fetched, result>>

\* get_organizations returned: the workspace coroutines are created
OrgsDone ==
    /\ stage = "FetchingOrgs"
    /\ pg.pc = "returned"
    /\ organizations' = pg.all_data
    /\ tasks' = WorkspaceTasks(pg.all_data)
    /\ stage' = "FetchingWorkspaces"
    /\ pg' = IdlePager
    /\ UNCHANGED <<cap, world, execVars, calls, reqlog, org_workspaces,
                   workspace_runs, fetched, result>>

\* workspaces = await task: the next workspace coroutine starts to run
AwaitWorkspaces ==
    /\ stage = "FetchingWorkspaces"
    /\ pg.pc = "idle"
    /\ tasks # <<>>
    /\ pg' = StartPager(WorkspacesURL(Head(tasks).org_name), WsParams)
    /\ calls' = 0
    /\ reqlog' = <<>>
    /\ UNCHANGED <<cap, world, execVars, orchVars>>

\* org_workspaces[org_name] = workspaces
WorkspacesDone ==
    /\ stage = "FetchingWorkspaces"
    /\ pg.pc = "returned"
    /\ org_workspaces' = DictSet(org_workspaces, Head(tasks).org_name, pg.all_data)
    /\ fetched' = Append(fetched, Fetched("workspaces", Head(tasks), pg.all_data))
    /\ tasks' = Tail(tasks)
    /\ pg' = IdlePager
    /\ UNCHANGED <<cap, world, execVars, calls, reqlog, stage, organizations,
                   workspace_runs, result>>

\* a runs stage that starts while workspace coroutines are still to be awaited
BuildRunTasksEarly ==
    /\ stage = "FetchingWorkspaces"
    /\ pg.pc = "idle"
    /\ tasks' = RunTasks(org_workspaces)
    /\ workspace_runs' = <<>>
    /\ stage' = "FetchingRuns"
    /\ UNCHANGED <<cap, world, execVars, pagerVars, organizations, org_workspaces,
                   fetched, result>>

\* a runs stage that starts workspace_runs with a key for every organization
BuildRunTasksWithKeys ==
    /\ stage = "FetchingWorkspaces"
    /\ pg.pc = "idle"
    /\ tasks = <<>>
    /\ tasks' = RunTasks(org_workspaces)
    /\ workspace_runs' =
           [i \in 1..Len(org_workspaces) |-> Entry(org_workspaces[i].key, <<>>)]
    /\ stage' = "FetchingRuns"
    /\ UNCHANGED <<cap, world, execVars, pagerVars, organizations, org_workspaces,
                   fetched, result>>

\* every workspace coroutine was awaited: the run coroutines are created
BuildRunTasks ==
    /\ stage = "FetchingWorkspaces"
    /\ pg.pc = "idle"
    /\ tasks = <<>>
    /\ tasks' = RunTasks(org_workspaces)
    /\ workspace_runs' = <<>>
    /\ stage' = "FetchingRuns"
    /\ UNCHANGED <<cap, world, execVars, pagerVars, organizations, org_workspaces,
                   fetched, result>>

\* runs = await task: the next run coroutine starts to run
AwaitRuns ==
    /\ stage = "FetchingRuns"
    /\ pg.pc = "idle"
    /\ tasks # <<>>
    /\ pg' = StartPager(RunsURL(Head(tasks).workspace_id), RunParams)
    /\ calls' = 0
    /\ reqlog' = <<>>
    /\ UNCHANGED <<cap, world, execVars, orchVars>>

\* workspace_runs[org_name][workspace_name] = {'workspace_id': ..., 'runs': runs}
RunsDone ==
    /\ stage = "FetchingRuns"
    /\ pg.pc = "returned"
    /\ workspace_runs' = StoreRuns(workspace_runs, Head(tasks), pg.all_data)
    /\ fetched' = Append(fetched, Fetched("runs", Head(tasks), pg.all_data))
    /\ tasks' = Tail(tasks)
    /\ pg' = IdlePager
    /\ UNCHANGED <<cap, world, execVars, calls, reqlog, stage, organizations,
                   org_workspaces, result>>

\* every run coroutine was awaited: the snapshot is built and returned
Assemble ==
    /\ stage = "FetchingRuns"
    /\ pg.pc = "idle"
    /\ tasks = <<>>
    /\ result' = BuildResult(organizations, org_workspaces, workspace_runs)
    /\ stage' = "Assembled"
    /\ UNCHANGED <<cap, world, execVars, pagerVars, organizations, tasks,
                   org_workspaces, workspace_runs, fetched>>

\* a collection that answers a failed fetch with what it has so far
FailDegrades ==
    /\ stage \in {"FetchingOrgs", "FetchingWorkspaces", "FetchingRuns"}
    /\ pg.pc = "raised"
    /\ result' = BuildResult(organizations, org_workspaces, workspace_runs)
    /\ stage' = "Assembled"
    /\ UNCHANGED <<cap, world, execVars, pagerVars, organizations, tasks,
                   org_workspaces, workspace_runs, fetched>>

\* a collection that drops a failed fetch and goes on with the next one
FailSkipsTask ==
    /\ stage \in {"FetchingWorkspaces", "FetchingRuns"}
    /\ pg.pc = "raised"
    /\ tasks' = Tail(tasks)
    /\ pg' = IdlePager
    /\ UNCHANGED <<cap, world, execVars, calls, reqlog, stage, organizations,
                   org_workspaces, workspace_runs, fetched, result>>

\* an awaited pager call raised: the exception leaves get_all_data
Fail ==
    /\ stage \in {"FetchingOrgs", "FetchingWorkspaces", "FetchingRuns"}
    /\ pg.pc = "raised"
    /\ stage' = "Failed"
    /\ UNCHANGED <<cap, world, execVars, pagerVars, organizations, tasks,
                   org_workspaces, workspace_runs, fetched, result>>

OrchNext ==
    \/ StartCollection \/ OrgsDone \/ AwaitWorkspaces \/ WorkspacesDone
    \/ BuildRunTasks \/ AwaitRuns \/ RunsDone \/ Assemble \/ Fail

(***************************************************************************)
(* One call of _paginated_request on its own, as made by                   *)
(* get_workspaces_for_organization (lines 99-106).                         *)
(***************************************************************************)
PagerURL == WorkspacesURL("a")

\* capacities up to the one that lets the longest chain of retries finish;
\* the remote's workspace collection is whatever chain of pages it holds
PagerInit ==
    /\ cap \in 1..(MaxRateLimits + 1)
    /\ sem = cap
    /\ world \in Served(UnseenWorld, PagerURL,
                        PagerChains(UnseenWorld, PagerURL))
    /\ rlLeft = MaxRateLimits
    /\ stack = <<>>
    /\ mr = NoResult
    /\ gets = 0
    /\ sleeps = <<>>
    /\ answers = <<>>
    /\ pg = StartPager(PagerURL, WsParams)
    /\ calls = 0
    /\ reqlog = <<>>
    /\ stage = "NotStarted"
    /\ organizations = <<>>
    /\ tasks = <<>>
    /\ org_workspaces = <<>>
    /\ workspace_runs = <<>>
    /\ fetched = <<>>
    /\ result = NoSnapshot

PagerStep == ExecNext(PagerChains(world, Top.url)) \/ PagerNext

PagerSpec == PagerInit /\ [][PagerStep]_vars

\* the event loop runs the one task whenever it can take a step
PagerFairSpec == PagerSpec /\ WF_vars(PagerStep)


(***************************************************************************)
(* One whole collection run: main's call of get_all_data.                  *)
(***************************************************************************)
Init ==
    /\ cap \in 1..MaxCap
    /\ sem = cap
    /\ world = UnseenWorld
    /\ rlLeft = MaxRunRateLimits
    /\ stack = <<>>
    /\ mr = NoResult
    /\ gets = 0
    /\ sleeps = <<>>
    /\ answers = <<>>
    /\ pg = IdlePager
    /\ calls = 0
    /\ reqlog = <<>>
    /\ stage = "NotStarted"
    /\ organizations = <<>>
    /\ tasks = <<>>
    /\ org_workspaces = <<>>
    /\ workspace_runs = <<>>
    /\ fetched = <<>>
    /\ result = NoSnapshot

Next == ExecNext(RunChains(world, Top.url)) \/ PagerNext \/ OrchNext

Spec == Init /\ [][Next]_vars

\* the event loop runs the one task whenever it can take a step
FairSpec == Spec /\ WF_vars(Next)


(***************************************************************************)
(* Properties of the Request Budget and of _make_request.                  *)
(***************************************************************************)
Last(q) == q[Len(q)]

\* the outermost _make_request call has returned or raised
CallEnded == stack = <<>> /\ mr.kind # "none"

\* C1: in every state of a collection run the number of permits acquired by
\* _make_request and not yet released is at most max_concurrent_requests.
C1_PermitsWithinBudget == Outstanding <= cap

\* C1 witness: the whole budget is out and a retry waits for a permit.
C1_BudgetExhausted ==
    /\ stack # <<>>
    /\ Top.pc = "acquire"
    /\ Outstanding = cap

\* C2: a frame sleeping out a rate-limit backoff holds no permit, and one
\* logical request never holds more than one permit.
C2_NoPermitWhileSleeping ==
    /\ \A i \in 1..Len(stack) : stack[i].pc = "sleep" => ~stack[i].holds
    /\ Outstanding <= 1

\* C3: a _make_request call that has not returned or raised can always take
\* its next step: it never blocks for good, whatever the capacity and the
\* number of rate-limit responses it has had.
C3_RetryNeverBlocks ==
    stack # <<>> => ENABLED ExecNext(RunChains(world, Top.url))


\* the GETs of the current outermost _make_request call all carry the URL
\* and the query parameters of its first GET
RetriesRepeatRequest ==
    \A i \in 1..Len(reqlog) :
        i > Len(reqlog) - gets => reqlog[i] = reqlog[Len(reqlog) - gets + 1]

\* C4: a pager call whose only rate-limit response is followed by successes
\* returns the item sequence of the run without the rate-limit (the items of
\* the remote's chain), and the retry repeats the URL and the parameters.
C4_RateLimitIsTransparent ==
    /\ (rlLeft = MaxRateLimits - 1 /\ stack # <<>> /\ Top.pc = "sleep")
           ~> \/ rlLeft < MaxRateLimits - 1
              \/ pg.pc = "raised"
              \/ /\ pg.pc = "returned"
                 /\ pg.all_data = ItemsOf(ChainOf(world, PagerURL))
    /\ []RetriesRepeatRequest

\* the delay a rate-limit response advertises
Advertised(r) == IF r.hasRA THEN ParseInt(r.ra).val ELSE DefaultRetryAfter

\* C5: a call answered by n rate-limit responses and then a terminal response
\* has issued n+1 GETs and slept n times, the i-th time for the Retry-After
\* value of the i-th rate-limit response, or for 5 when it carries none.
C5_OneRetryPerRateLimit ==
    (CallEnded /\ answers # <<>> /\ ~IsRateLimit(Last(answers))) =>
        /\ gets = Len(answers)
        /\ Len(sleeps) = Len(answers) - 1
        /\ \A i \in 1..Len(sleeps) :
            IsRateLimit(answers[i]) /\ sleeps[i] = Advertised(answers[i])

\* C5 witness: two rate-limit responses, "Retry-After: 12" and none, then a page.
C5_TwoRetriesThenPage ==
    /\ CallEnded
    /\ mr.kind = "page"
    /\ gets = 3
    /\ sleeps = <<12, 5>>

Unparsable(r) == IsRateLimit(r) /\ r.hasRA /\ ~ParseInt(r.ra).ok

\* C6: after a rate-limit response with an unparsable Retry-After value the
\* call goes on: it has slept for the default of 5 and is retrying.
C6_UnparsableRetryAfterFallsBack ==
    (answers # <<>> /\ Unparsable(Last(answers))) =>
        /\ stack # <<>>
        /\ Len(sleeps) = Len(answers)
        /\ Last(sleeps) = DefaultRetryAfter

OtherFailure(r) == r.fault \/ r.status \notin {StatusOK, StatusRateLimit}

\* C7: after a transport fault or a status other than 200 and 429 the call has
\* raised a fatal error: it has returned nothing and issued no further GET.
C7_OtherStatusIsFatal ==
    (answers # <<>> /\ OtherFailure(Last(answers))) =>
        /\ CallEnded
        /\ mr.kind = "error"
        /\ gets = Len(answers)

(***************************************************************************)
(* Properties of _paginated_request.                                       *)
(***************************************************************************)
\* the chain behind the URL of the single pager call
PagerChain == ChainOf(world, PagerURL)

RECURSIVE SumOfPageCounts(_)
SumOfPageCounts(c) ==
    IF c = <<>> THEN 0 ELSE Len(c[1].data) + SumOfPageCounts(Tail(c))

C9_PagerStopsAfterKCalls ==
    (pg.pc = "returned" /\ rlLeft = MaxRateLimits) =>
        /\ calls = Len(PagerChain)
        /\ Len(reqlog) = Len(PagerChain)

\* C9 witness: a first page without items and a last page with an empty locator.
C9_TwoCallsEmptyLocator ==
    /\ pg.pc = "returned"
    /\ rlLeft = MaxRateLimits
    /\ calls = 2
    /\ PagerChain[1].data = <<>>
    /\ PagerChain[2].links = "EmptyNext"


(***************************************************************************)
(* Properties of get_all_data.                                             *)
(***************************************************************************)
\* one slot per workspace of the snapshot's workspaces mapping
WorkspaceSlots(r) ==
    UNION {{<<i, j>> : j \in 1..Len(r.workspaces[i].val)} :
               i \in 1..Len(r.workspaces)}

\* one slot per run of the snapshot's runs mapping
RunSlots(r) ==
    UNION {UNION {{<<i, j, k>> : k \in 1..Len(r.runs[i].val[j].val.runs)} :
                      j \in 1..Len(r.runs[i].val)} :
               i \in 1..Len(r.runs)}

\* one slot per run returned by a runs fetch, one fetch per fetched workspace
FetchedRunSlots ==
    UNION {{<<i, k>> : k \in 1..Len(fetched[i].items)} :
               i \in {n \in 1..Len(fetched) : fetched[n].kind = "runs"}}

\* no organization of the snapshot lists two workspaces under one name
NoSharedWorkspaceName(r) ==
    \A i \in 1..Len(r.workspaces) :
        \A j, k \in 1..Len(r.workspaces[i].val) :
            j # k => r.workspaces[i].val[j].name # r.workspaces[i].val[k].name

\* with zero organizations every count is zero and only the organizations
\* endpoint was requested
EmptyCase(r) ==
    r.organizations = <<>> =>
        /\ r.summary = Summary(0, 0, 0)
        /\ fetched = <<>>
        /\ \A i \in 1..Len(reqlog) : reqlog[i].url.coll = "organizations"

\* C10 as stated: total_runs is the sum of the run counts over all fetched
\* workspaces.
C10_SummaryCountsFetchedRuns ==
    stage = "Assembled" =>
        /\ result.summary.total_organizations = Len(result.organizations)
        /\ result.summary.total_workspaces = Cardinality(WorkspaceSlots(result))
        /\ result.summary.total_runs = Cardinality(FetchedRunSlots)
        /\ EmptyCase(result)

\* C10 as amended: total_runs is the sum of the run counts over the entries of
\* the runs mapping, which is the sum over all fetched workspaces when no
\* organization lists two workspaces under one name.
C10_SummaryCountsSnapshot ==
    stage = "Assembled" =>
        /\ result.summary.total_organizations = Len(result.organizations)
        /\ result.summary.total_workspaces = Cardinality(WorkspaceSlots(result))
        /\ result.summary.total_runs = Cardinality(RunSlots(result))
        /\ NoSharedWorkspaceName(result) =>
               result.summary.total_runs = Cardinality(FetchedRunSlots)
        /\ EmptyCase(result)

\* C10 witness: two organizations, two workspaces and one run in the snapshot.
C10_TwoTwoOne ==
    /\ stage = "Assembled"
    /\ result.summary = Summary(2, 2, 1)

\* the entries of a snapshot's runs mapping: organization, workspace name, id
RunEntries(r) ==
    UNION {{[org |-> r.runs[i].key, name |-> r.runs[i].val[j].key,
             id |-> r.runs[i].val[j].val.workspace_id,
             runs |-> r.runs[i].val[j].val.runs] :
                j \in 1..Len(r.runs[i].val)} : i \in 1..Len(r.runs)}

\* the workspaces a snapshot lists under an organization name
WorkspacesOf(r, org) ==
    IF DictHas(r.workspaces, org)
    THEN {DictGet(r.workspaces, org)[k] :
              k \in 1..Len(DictGet(r.workspaces, org))}
    ELSE {}

\* C11: in a returned snapshot every (organization, workspace name) key of the
\* runs mapping names a workspace listed under that organization in the
\* workspaces mapping, and the entry's workspace_id is the id of a workspace
\* of that name there.
C11_RunsKeysAreWorkspaces ==
    stage = "Assembled" =>
        \A e \in RunEntries(result) :
            /\ DictHas(result.workspaces, e.org)
            /\ Item(e.id, e.name) \in WorkspacesOf(result, e.org)

\* C11 witness: an organization with two workspaces of one name, the entry of
\* that name carrying the id of the second.
C11_SharedNameEntry ==
    /\ stage = "Assembled"
    /\ WorkspacesOf(result, "a") = {Item("ws-1", "x"), Item("ws-2", "x")}
    /\ \E e \in RunEntries(result) :
           e.org = "a" /\ e.name = "x" /\ e.id = "ws-2"

\* the stages of a run that succeeds, in order
StageOrder ==
    <<"NotStarted", "FetchingOrgs", "FetchingWorkspaces", "FetchingRuns",
      "Assembled">>
StageRank(s) == CHOOSE i \in 1..Len(StageOrder) : StageOrder[i] = s
FetchingStages == {"FetchingOrgs", "FetchingWorkspaces", "FetchingRuns"}

\* the pager calls of a kind that have returned in this run
FetchedOf(kind) == {i \in 1..Len(fetched) : fetched[i].kind = kind}

\* this step issues a GET
IssuesRequest == reqlog' # reqlog /\ reqlog' # <<>>

\* C12: the stage only ever moves to the next one of NotStarted, FetchingOrgs,
\* FetchingWorkspaces, FetchingRuns, Assembled, or from a fetching stage to
\* Failed; Assembled and Failed are never left; a workspaces request goes out
\* only in the workspaces stage, after the organizations pager call returned,
\* and a runs request only in the runs stage, after the workspaces pager call
\* of every organization returned.
C12_StagesInOrder ==
    [][/\ stage' # stage =>
            \/ stage \in FetchingStages /\ stage' = "Failed"
            \/ /\ stage # "Failed" /\ stage' # "Failed"
               /\ StageRank(stage) < Len(StageOrder)
               /\ stage' = StageOrder[StageRank(stage) + 1]
       /\ IssuesRequest =>
            LET coll == Last(reqlog').url.coll IN
            /\ coll = "organizations" => stage = "FetchingOrgs"
            /\ coll = "workspaces" =>
                   /\ stage = "FetchingWorkspaces"
                   /\ \E i \in 1..Len(organizations) :
                          organizations[i].name = Last(reqlog').url.key
            /\ coll = "runs" =>
                   /\ stage = "FetchingRuns"
                   /\ Cardinality(FetchedOf("workspaces")) = Len(organizations)
                   /\ \A i \in 1..Len(organizations) :
                          DictHas(org_workspaces, organizations[i].name)
      ]_vars

\* C12 witness: a run that went through every stage, with two workspaces
\* fetches and a runs fetch behind it.
C12_EveryStageDone ==
    /\ stage = "Assembled"
    /\ Cardinality(FetchedOf("workspaces")) = 2
    /\ FetchedOf("runs") # {}

\* the awaited pager call has raised, or the error has left get_all_data
ErrorRaised == pg.pc = "raised" \/ stage = "Failed"

\* C13: when a pager call of any stage raises, the next step of get_all_data
\* is to raise: the stage becomes Failed, the error is the one the call
\* ended with, and no snapshot, partial or whole, is or was produced.
C13_ErrorAbortsRun ==
    [][/\ (pg.pc = "raised" /\ stage # "Failed") =>
              /\ stage' = "Failed"
              /\ mr' = mr
              /\ mr.kind \in {"error", "null"}
       /\ ErrorRaised' => (result' = NoSnapshot /\ stage' # "Assembled")
      ]_vars

\* C13 witness: the run failed in a later fetch, with results of earlier
\* fetches already collected.
C13_LaterFetchFails ==
    /\ stage = "Failed"
    /\ org_workspaces # <<>>
    /\ FetchedOf("workspaces") # {}
    /\ result = NoSnapshot

\* the requests sent and not yet answered, by the path key of their URL
RequestsInFlight ==
    {stack[i].url.key : i \in {j \in 1..Len(stack) : stack[j].pc = "inflight"}}

\* the path key of the fetch a task of the current stage makes
TaskKey(t) == IF stage = "FetchingWorkspaces" THEN t.org_name ELSE t.workspace_id

\* a fan-out stage with room for two requests and fetches for two different
\* organizations (or workspaces) still to be awaited
TwoFetchesAhead ==
    /\ cap >= 2
    /\ stage \in {"FetchingWorkspaces", "FetchingRuns"}
    /\ Len(tasks) >= 2
    /\ TaskKey(tasks[1]) # TaskKey(tasks[2])

\* the code's schedule: at most one request is in flight in any state
OneRequestAtATime == Cardinality(RequestsInFlight) <= 1

\* C14: in the workspaces stage and in the runs stage, with at least two
\* permits and fetches for two different organizations (or workspaces), the
\* run comes to a state where requests of two different fetches are in
\* flight at the same time.
C14_FanOutOverlaps ==
    TwoFetchesAhead ~> (Cardinality(RequestsInFlight) >= 2)

Request(url, params) == [url |-> url, params |-> params]

\* C15: in one pager call the first GET carries the initial URL and the
\* initial query parameters; every later GET either repeats the one before it
\* (a rate-limit retry, parameters included) or goes to the next locator of
\* the page before with no query parameters.
C15_ParamsOnlyOnFirstPage ==
    /\ reqlog # <<>> => reqlog[1] = Request(PagerURL, WsParams)
    /\ \A i \in 2..Len(reqlog) :
        \/ reqlog[i] = reqlog[i - 1]
        \/ reqlog[i] = Request(NextLocator(reqlog[i - 1].url), NoParams)
    /\ \A i \in 1..Len(reqlog) :
        reqlog[i].params = (IF reqlog[i].url = PagerURL THEN WsParams ELSE NoParams)

\* C15 witness: the first page rate-limited once and fetched again with the
\* parameters, the second page fetched without them.
C15_RetryThenNextPage ==
    reqlog = <<Request(PagerURL, WsParams), Request(PagerURL, WsParams),
               Request(NextLocator(PagerURL), NoParams)>>

\* the runs pager calls that have returned, in the order they were awaited
RunFetches == SelectSeq(fetched, LAMBDA f : f.kind = "runs")

\* the runs stage made one pager call per workspace of the workspaces mapping,
\* in its order, and each call returned the runs the remote holds for the id
OneRunsCallPerWorkspace(r) ==
    /\ [i \in 1..Len(RunFetches) |-> RunFetches[i].task] = RunTasks(r.workspaces)
    /\ \A i \in 1..Len(RunFetches) :
        RunFetches[i].items =
            ItemsOf(ChainOf(world, RunsURL(RunFetches[i].task.workspace_id)))

\* the runs entry a fetch would have if every pair had an entry of its own
EntryOf(f) ==
    [org |-> f.task.org_name, name |-> f.task.workspace_name,
     id |-> f.task.workspace_id, runs |-> f.items]

\* the last runs fetch made for a workspace name of an organization
LastFetchFor(org, name) ==
    RunFetches[CHOOSE i \in 1..Len(RunFetches) :
                   /\ RunFetches[i].task.org_name = org
                   /\ RunFetches[i].task.workspace_name = name
                   /\ \A j \in (i + 1)..Len(RunFetches) :
                          \/ RunFetches[j].task.org_name # org
                          \/ RunFetches[j].task.workspace_name # name]

\* C16 as stated: one runs pager call per (organization, workspace) pair, by
\* the workspace's id, and one entry of the runs mapping per pair with that id
\* and the runs returned for it, so as many entries as workspaces.
C16_RunsEntryPerWorkspace ==
    stage = "Assembled" =>
        /\ OneRunsCallPerWorkspace(result)
        /\ \A i \in 1..Len(RunFetches) : EntryOf(RunFetches[i]) \in RunEntries(result)
        /\ Cardinality(RunEntries(result)) = Cardinality(WorkspaceSlots(result))

\* C16 as amended: one runs pager call per (organization, workspace) pair, by
\* the workspace's id, and one entry of the runs mapping per (organization,
\* workspace name), with the id and the runs of the last workspace fetched
\* under that name; as many entries as workspaces when no organization lists
\* two workspaces under one name.
C16_RunsEntryPerName ==
    stage = "Assembled" =>
        /\ OneRunsCallPerWorkspace(result)
        /\ RunEntries(result) =
               {EntryOf(LastFetchFor(f.task.org_name, f.task.workspace_name)) :
                    f \in {RunFetches[i] : i \in 1..Len(RunFetches)}}
        /\ NoSharedWorkspaceName(result) =>
               /\ \A i \in 1..Len(RunFetches) :
                      EntryOf(RunFetches[i]) \in RunEntries(result)
               /\ Cardinality(RunEntries(result)) = Cardinality(WorkspaceSlots(result))

\* C16 witness: two workspaces named x in one organization, the first with a
\* run; the single entry for x carries the second's id and its empty runs.
C16_LaterWorkspaceWins ==
    /\ stage = "Assembled"
    /\ Len(RunFetches) = 2
    /\ RunFetches[1].items # <<>>
    /\ RunEntries(result) = {[org |-> "a", name |-> "x", id |-> "ws-2", runs |-> <<>>]}

\* a response with the OK status whose body is not JSON
Garbled(r) == ~r.fault /\ r.status = StatusOK /\ ~r.decodable

\* C17: after an OK response whose body cannot be decoded the call has raised
\* a fatal error: the frame that got it issued its one GET and no other
\* followed, nothing was returned, and no permit is held.
C17_UndecodableBodyIsFatal ==
    (answers # <<>> /\ Garbled(Last(answers))) =>
        /\ CallEnded
        /\ mr.kind = "error"
        /\ gets = Len(answers)
        /\ Len(sleeps) = Len(answers) - 1
        /\ Outstanding = 0
        /\ sem = cap

\* C17 witness: the first response of a call is undecodable; one GET, no sleep.
C17_FirstBodyUndecodable ==
    /\ CallEnded
    /\ Len(answers) = 1
    /\ Garbled(answers[1])
    /\ mr.err = "JSONDecodeError"
    /\ gets = 1

\* C18: once the outermost _make_request call has returned or raised, after
\* any number of rate-limit retries, none of its permits is out; so when
\* get_all_data has ended, in Assembled or in Failed, every permit of the
\* budget is available.
C18_PermitsBackAtTheEnd ==
    /\ CallEnded => (Outstanding = 0 /\ sem = cap)
    /\ stage \in {"Assembled", "Failed"} => sem = cap

\* C18 witness: a run that ended after a rate-limit retry had two permits out.
C18_EndedAfterRetry ==
    /\ stage \in {"Assembled", "Failed"}
    /\ cap = 2
    /\ rlLeft = 0
    /\ sem = cap

\* a _make_request call of this run has ended without a page, or the error
\* has reached the pager or left get_all_data
FatalError == mr.kind \in {"error", "null"} \/ ErrorRaised

Keys(d) == {d[i].key : i \in 1..Len(d)}

\* C20: in a returned snapshot an organization whose workspaces fetch returned
\* nothing is a key of the workspaces mapping, with an empty sequence, and not
\* a key of the runs mapping; the keys of the runs mapping are exactly the
\* organization names with at least one workspace.
C20_RunsKeysHaveWorkspaces ==
    stage = "Assembled" =>
        /\ \A i \in FetchedOf("workspaces") :
            fetched[i].items = <<>> =>
                /\ DictHas(result.workspaces, fetched[i].task.org_name)
                /\ DictGet(result.workspaces, fetched[i].task.org_name) = <<>>
                /\ ~DictHas(result.runs, fetched[i].task.org_name)
        /\ Keys(result.runs) =
               {k \in Keys(result.workspaces) : DictGet(result.workspaces, k) # <<>>}
        /\ Keys(result.workspaces) =
               {result.organizations[i].name : i \in 1..Len(result.organizations)}

\* C20 witness: organization a without workspaces, organization b with one.
C20_OneEmptyOrganization ==
    /\ stage = "Assembled"
    /\ Keys(result.workspaces) = {"a", "b"}
    /\ DictGet(result.workspaces, "a") = <<>>
    /\ Keys(result.runs) = {"b"}

=============================================================================
